---- MODULE Spec2Model ----
(***************************************************************************)
(* A model of the salg vector library: Vec3, Vec4 and Quaternion.         *)
(*                                                                         *)
(* f64 is modelled by decimal fixed point with the IEEE-754 special       *)
(* values kept: a number is a record [k, n] where k is "fin" (n is the    *)
(* value times Scale), "inf" (n is the sign) or "nan".  Every operation   *)
(* rounds to nearest like the hardware does, symmetrically in the sign,   *)
(* and small integers and their halves, quarters, ... are exact, as they  *)
(* are in f64.  Zero carries no sign: the only divisors the modelled code *)
(* can make zero are norm and norm * norm, which are +0.0 in f64.         *)
(***************************************************************************)
EXTENDS Integers, Sequences, FiniteSets, TLC

\* ------------------------------------------------------------------ f64

\* Resolution of the fixed-point model of f64: 1.0 is Fin(Scale).
Scale == 10000
\* Long division works one base-Digit digit at a time (Digit * Digit = Scale).
Digit == 100

Fin(n) == [k |-> "fin", n |-> n]
NaN == [k |-> "nan", n |-> 0]
Inf(sign) == [k |-> "inf", n |-> sign]

IsNaN(a) == a.k = "nan"
IsInf(a) == a.k = "inf"
IsFinite(a) == a.k = "fin"

Abs(n) == IF n < 0 THEN -n ELSE n
Sgn(n) == IF n < 0 THEN -1 ELSE IF n > 0 THEN 1 ELSE 0

\* n / d rounded to nearest (n >= 0, d > 0).
RoundDiv(n, d) == (2 * n + d) \div (2 * d)

\* a * b / Scale rounded to nearest, computed by halves so that no
\* intermediate product leaves the range of 32-bit integers.
MulFix(a, b) ==
    LET x == Abs(a)
        y == Abs(b)
        xh == x \div Scale
        xl == x % Scale
        yh == y \div Scale
        yl == y % Scale
    IN  Sgn(a) * Sgn(b) * (xh * yh * Scale + xh * yl + xl * yh + RoundDiv(xl * yl, Scale))

\* a * Scale / b rounded to nearest (b # 0), by long division.
DivFix(a, b) ==
    LET x == Abs(a)
        y == Abs(b)
        q0 == x \div y
        r0 == x % y
        q1 == (r0 * Digit) \div y
        r1 == (r0 * Digit) % y
        q2 == RoundDiv(r1 * Digit, y)
    IN  Sgn(a) * Sgn(b) * (q0 * Scale + q1 * Digit + q2)

\* f64 negation.
FNeg(a) ==
    CASE a.k = "nan" -> NaN
      [] a.k = "inf" -> Inf(-a.n)
      [] OTHER -> Fin(-a.n)

\* f64 addition.
FAdd(a, b) ==
    CASE a.k = "nan" \/ b.k = "nan" -> NaN
      [] a.k = "inf" /\ b.k = "inf" -> IF a.n = b.n THEN a ELSE NaN
      [] a.k = "inf" -> a
      [] b.k = "inf" -> b
      [] OTHER -> Fin(a.n + b.n)

\* f64 subtraction.
FSub(a, b) == FAdd(a, FNeg(b))

\* f64 multiplication: 0 * inf is NaN.
FMul(a, b) ==
    CASE a.k = "nan" \/ b.k = "nan" -> NaN
      [] a.k = "inf" \/ b.k = "inf" ->
            IF a.n = 0 \/ b.n = 0 THEN NaN ELSE Inf(Sgn(a.n) * Sgn(b.n))
      [] OTHER -> Fin(MulFix(a.n, b.n))

\* f64 division: x / 0 is inf for x # 0 and NaN for x = 0 (the zero is +0.0).
FDiv(a, b) ==
    CASE a.k = "nan" \/ b.k = "nan" -> NaN
      [] a.k = "inf" /\ b.k = "inf" -> NaN
      [] a.k = "inf" -> Inf(IF b.n < 0 THEN -a.n ELSE a.n)
      [] b.k = "inf" -> Fin(0)
      [] b.n = 0 -> IF a.n = 0 THEN NaN ELSE Inf(Sgn(a.n))
      [] OTHER -> Fin(DivFix(a.n, b.n))

\* f64 ==, which NaN never satisfies.
FEq(a, b) == a.k # "nan" /\ b.k # "nan" /\ a = b

\* f64 >, which NaN never satisfies.
FGt(a, b) ==
    CASE a.k = "nan" \/ b.k = "nan" -> FALSE
      [] a.k = "inf" /\ b.k = "inf" -> a.n > b.n
      [] a.k = "inf" -> a.n > 0
      [] b.k = "inf" -> b.n < 0
      [] OTHER -> a.n > b.n

\* r * r <= x * Scale, compared without forming either product in full.
SqLeq(r, x) ==
    LET rh == r \div Scale
        rl == r % Scale
        lo == rl * rl
        hi == rh * rh * Scale + 2 * rh * rl + lo \div Scale
    IN  rh * rh <= x \div Scale /\ (hi < x \/ (hi = x /\ lo % Scale = 0))

\* r * r + r < x * Scale: whether x lies above the midpoint of r and r + 1.
SqMidLt(r, x) ==
    LET rh == r \div Scale
        rl == r % Scale
        lo == rl * rl + rl
        hi == rh * rh * Scale + 2 * rh * rl + rh + lo \div Scale
    IN  hi < x

\* The largest r in lo..hi with r * r <= x * Scale, by bisection.
RECURSIVE RootBetween(_, _, _)
RootBetween(lo, hi, x) ==
    IF lo >= hi THEN lo
    ELSE LET mid == (lo + hi + 1) \div 2
         IN  IF SqLeq(mid, x) THEN RootBetween(mid, hi, x)
             ELSE RootBetween(lo, mid - 1, x)

\* sqrt(x / Scale) * Scale rounded to nearest (x >= 0).
SqrtFix(x) ==
    LET r == RootBetween(0, x + Scale, x)
    IN  IF SqMidLt(r, x) THEN r + 1 ELSE r

\* f64::sqrt, correctly rounded; NaN below zero.
FSqrt(a) ==
    CASE a.k = "nan" -> NaN
      [] a.k = "inf" -> IF a.n > 0 THEN a ELSE NaN
      [] a.n < 0 -> NaN
      [] OTHER -> Fin(SqrtFix(a.n))

\* std::f64::consts::PI.
PI == 31416

\* n / d rounded to nearest for either sign of n (d > 0).
SRoundDiv(n, d) == Sgn(n) * RoundDiv(Abs(n), d)

\* The sum term - term*x2/(n(n+1)) + term*x2^2/(n(n+1)(n+2)(n+3)) - ...,
\* the Taylor series of sin (term = x, n = 2) and cos (term = 1, n = 1).
RECURSIVE Series(_, _, _)
Series(term, x2, n) ==
    IF term = 0 THEN 0
    ELSE term + Series(SRoundDiv(-MulFix(term, x2), n * (n + 1)), x2, n + 2)

\* x brought into (-PI, PI] by whole turns.
Wrap(x) ==
    LET y == x % (2 * PI)
    IN  IF y > PI THEN y - 2 * PI ELSE y

SinFix(x) ==
    LET y == Wrap(x)
        z == IF 2 * y > PI THEN PI - y ELSE IF 2 * y < -PI THEN -PI - y ELSE y
    IN  Series(z, MulFix(z, z), 2)

CosFix(x) ==
    LET y == Abs(Wrap(x))
    IN  IF 2 * y > PI
        THEN -Series(Scale, MulFix(PI - y, PI - y), 1)
        ELSE Series(Scale, MulFix(y, y), 1)

\* f64::sin and f64::cos: NaN outside the finite numbers.
FSin(a) == IF a.k = "fin" THEN Fin(SinFix(a.n)) ELSE NaN
FCos(a) == IF a.k = "fin" THEN Fin(CosFix(a.n)) ELSE NaN

\* The literals of the source.
Zero == Fin(0)
One == Fin(Scale)
Half == Fin(Scale \div 2)
Deg180 == Fin(180 * Scale)
FPI == Fin(PI)

\* ------------------------------------------------------------------ Vec3

Vec3New(x, y, z) == [x |-> x, y |-> y, z |-> z]

\* impl PartialEq<Vec3> for Vec3
Vec3Eq(a, b) == FEq(a.x, b.x) /\ FEq(a.y, b.y) /\ FEq(a.z, b.z)

Vec3Copy(a) == Vec3New(a.x, a.y, a.z)

\* impl Add<Vec3> for Vec3
Vec3Add(a, v) == Vec3New(FAdd(a.x, v.x), FAdd(a.y, v.y), FAdd(a.z, v.z))

\* impl AddAssign for Vec3: the new value of the receiver
Vec3AddAssign(a, v) == Vec3New(FAdd(a.x, v.x), FAdd(a.y, v.y), FAdd(a.z, v.z))

\* impl Sub<Vec3> for Vec3
Vec3Sub(a, v) == Vec3New(FSub(a.x, v.x), FSub(a.y, v.y), FSub(a.z, v.z))

\* impl SubAssign<Vec3> for Vec3: the new value of the receiver
Vec3SubAssign(a, v) == Vec3New(FSub(a.x, v.x), FSub(a.y, v.y), FSub(a.z, v.z))

\* impl Mul<f64> for Vec3
Vec3Scale(a, s) == Vec3New(FMul(a.x, s), FMul(a.y, s), FMul(a.z, s))

\* impl MulAssign<f64> for Vec3: the new value of the receiver
Vec3ScaleAssign(a, s) == Vec3New(FMul(a.x, s), FMul(a.y, s), FMul(a.z, s))

\* impl Mul<Vec3> with the first term taken across the fields.
Vec3MulFieldSlip(a, v) == FAdd(FAdd(FMul(a.x, v.y), FMul(a.y, v.y)), FMul(a.z, v.z))

\* impl Mul<Vec3> for Vec3
Vec3Mul(a, v) == FAdd(FAdd(FMul(a.x, v.x), FMul(a.y, v.y)), FMul(a.z, v.z))

Vec3Dot(a, v) == Vec3Mul(a, v)

Vec3Magnitude(a) == FSqrt(FAdd(FAdd(FMul(a.x, a.x), FMul(a.y, a.y)), FMul(a.z, a.z)))

Vec3GetNormalize(a) ==
    LET magnitude == Vec3Magnitude(a)
    IN  IF FGt(magnitude, Zero) THEN Vec3Scale(a, FDiv(One, magnitude)) ELSE Vec3Copy(a)

\* Vec3::normalize without its magnitude > 0.0 guard.
Vec3NormalizeUnguarded(a) == Vec3Scale(a, FDiv(One, Vec3Magnitude(a)))

\* Vec3::normalize: the new value of the receiver
Vec3Normalize(a) ==
    LET magnitude == Vec3Magnitude(a)
    IN  IF FGt(magnitude, Zero) THEN Vec3Scale(a, FDiv(One, magnitude)) ELSE a

\* impl Rem<Vec3> with a sign slip in the last component.
Vec3RemSignSlip(a, v) ==
    Vec3New(FSub(FMul(a.y, v.z), FMul(a.z, v.y)),
            FSub(FMul(a.z, v.x), FMul(a.x, v.z)),
            FAdd(FMul(a.x, v.y), FMul(a.y, v.x)))

\* impl Rem<Vec3> for Vec3
Vec3Rem(a, v) ==
    Vec3New(FSub(FMul(a.y, v.z), FMul(a.z, v.y)),
            FSub(FMul(a.z, v.x), FMul(a.x, v.z)),
            FSub(FMul(a.x, v.y), FMul(a.y, v.x)))

Vec3Cross(a, v) == Vec3Rem(a, v)

\* impl RemAssign<Vec3> for Vec3: the new value of the receiver
Vec3RemAssign(a, v) == Vec3Rem(a, v)

\* impl Neg for Vec3
Vec3Neg(a) == Vec3New(FNeg(a.x), FNeg(a.y), FNeg(a.z))

\* ------------------------------------------------------------ Quaternion

QNew(v, s) == [v |-> v, s |-> s]

\* impl PartialEq for Quaternion
QEq(p, q) == Vec3Eq(p.v, q.v) /\ FEq(p.s, q.s)

QCopy(q) == QNew(q.v, q.s)

QNorm(q) == FSqrt(FAdd(FMul(q.s, q.s), Vec3Mul(q.v, q.v)))

\* Quaternion::normalize without its norm > 0.0 guard.
QNormalizeUnguarded(q) ==
    LET nv == FDiv(One, QNorm(q))
    IN  QNew(Vec3ScaleAssign(q.v, nv), FMul(q.s, nv))

\* Quaternion::normalize: the new value of the receiver
QNormalize(q) ==
    LET norm == QNorm(q)
    IN  IF FGt(norm, Zero)
        THEN LET nv == FDiv(One, norm)
             IN  QNew(Vec3ScaleAssign(q.v, nv), FMul(q.s, nv))
        ELSE q

QGetNormliaze(q) ==
    LET norm == QNorm(q)
    IN  IF FGt(norm, Zero)
        THEN LET nv == FDiv(One, norm)
             IN  QNew(Vec3Scale(q.v, nv), FMul(q.s, nv))
        ELSE QCopy(q)

\* The angle of convert_to_unit_norm read after the normalization.
ConvertAngleAfterNormalize(q) == FDiv(FMul(QNormalize(q).s, FPI), Deg180)

\* let angle = self.s * std::f64::consts::PI / 180.0
ConvertAngle(q) == FDiv(FMul(q.s, FPI), Deg180)

\* Quaternion::convert_to_unit_norm with sin and cos exchanged.
QConvertToUnitNormSwapped(q) ==
    LET angle == FDiv(FMul(q.s, FPI), Deg180)
        n == QNormalize(q)
    IN  QNew(Vec3Scale(n.v, FCos(FMul(angle, Half))), FSin(FMul(angle, Half)))

\* Quaternion::convert_to_unit_norm: the new value of the receiver
QConvertToUnitNorm(q) ==
    LET angle == FDiv(FMul(q.s, FPI), Deg180)
        n == QNormalize(q)
    IN  QNew(Vec3Scale(n.v, FSin(FMul(angle, Half))), FCos(FMul(angle, Half)))

QConjugate(q) == QNew(Vec3Neg(q.v), q.s)

\* Quaternion::inverse by the textbook formula, conjugate / norm^2.
QInverseTextbook(q) ==
    LET norm == QNorm(q)
        conj == QConjugate(q)
    IN  QNew(Vec3Scale(conj.v, FDiv(One, FMul(norm, norm))),
             FMul(conj.s, FDiv(One, FMul(norm, norm))))

QInverse(q) ==
    LET norm == QNorm(q)
        conj == QConjugate(q)
    IN  QNew(Vec3Scale(conj.v, FDiv(One, FMul(norm, norm))), FMul(conj.s, norm))

\* impl Mul<Quaternion> with the operands of the cross product exchanged.
QMulCrossFlipped(p, other) ==
    QNew(Vec3Add(Vec3Add(Vec3Scale(other.v, p.s), Vec3Scale(p.v, other.s)),
                 Vec3Cross(other.v, p.v)),
         FSub(FMul(p.s, other.s), Vec3Dot(p.v, other.v)))

\* impl Mul<Quaternion> with the dot product added to the scalar part.
QMulScalarSign(p, other) ==
    QNew(Vec3Add(Vec3Add(Vec3Scale(other.v, p.s), Vec3Scale(p.v, other.s)),
                 Vec3Cross(p.v, other.v)),
         FAdd(FMul(p.s, other.s), Vec3Dot(p.v, other.v)))

\* impl Mul<Quaternion> for Quaternion
QMul(p, other) ==
    QNew(Vec3Add(Vec3Add(Vec3Scale(other.v, p.s), Vec3Scale(p.v, other.s)),
                 Vec3Cross(p.v, other.v)),
         FSub(FMul(p.s, other.s), Vec3Dot(p.v, other.v)))

\* impl MulAssign<Quaternion> for Quaternion: the new value of the receiver
QMulAssign(p, other) == QMul(p, other)

\* impl Add<Quaternion> for Quaternion
QAdd(p, other) == QNew(Vec3Add(p.v, other.v), FAdd(p.s, other.s))

\* impl AddAssign<Quaternion> for Quaternion: the new value of the receiver
QAddAssign(p, other) == QNew(Vec3AddAssign(p.v, other.v), FAdd(p.s, other.s))

\* impl Sub<Quaternion> for Quaternion
QSub(p, other) == QNew(Vec3Sub(p.v, other.v), FSub(p.s, other.s))

\* impl SubAssign<Quaternion> for Quaternion: the new value of the receiver
QSubAssign(p, other) == QNew(Vec3SubAssign(p.v, other.v), FSub(p.s, other.s))

\* impl Mul<f64> for Quaternion
QScale(p, other) == QNew(Vec3Scale(p.v, other), FMul(p.s, other))

\* impl MulAssign<f64> for Quaternion: the new value of the receiver
QScaleAssign(p, other) == QNew(Vec3ScaleAssign(p.v, other), FMul(p.s, other))

\* The local q of Quaternion::rotate once q.v.normalize() and
\* q.convert_to_unit_norm() have run.
RotateWorking(rhs) ==
    LET q == QCopy(rhs)
    IN  QConvertToUnitNorm(QNew(Vec3Normalize(q.v), q.s))

\* Quaternion::rotate
QRotate(self, rhs) ==
    LET q == RotateWorking(rhs)
    IN  QMul(QMul(q, self), QInverse(q)).v

\* ------------------------------------------------------------------ Vec4

Vec4New(x, y, z, w) == [x |-> x, y |-> y, z |-> z, w |-> w]

\* impl PartialEq<Vec4> for Vec4
Vec4Eq(a, b) == FEq(a.x, b.x) /\ FEq(a.y, b.y) /\ FEq(a.z, b.z) /\ FEq(a.w, b.w)

Vec4Copy(a) == Vec4New(a.x, a.y, a.z, a.w)

\* Vec4::to_vec3 without the division by w.
Vec4ToVec3NoDivide(a) == Vec3New(a.x, a.y, a.z)

Vec4ToVec3(a) == Vec3New(FDiv(a.x, a.w), FDiv(a.y, a.w), FDiv(a.z, a.w))

Vec4ToPureVec3(a) == Vec3New(a.x, a.y, a.z)

Vec4Norm(a) == FSqrt(FAdd(FAdd(FMul(a.x, a.x), FMul(a.y, a.y)), FMul(a.z, a.z)))

\* Vec4::normalize leaving w as it is.
Vec4NormalizeKeepsW(a) ==
    LET norm == Vec4Norm(a)
    IN  IF FGt(norm, Zero)
        THEN LET mag == FDiv(One, norm)
             IN  Vec4New(FMul(a.x, mag), FMul(a.y, mag), FMul(a.z, mag), a.w)
        ELSE a

\* Vec4::normalize: the new value of the receiver
Vec4Normalize(a) ==
    LET norm == Vec4Norm(a)
    IN  IF FGt(norm, Zero)
        THEN LET mag == FDiv(One, norm)
             IN  Vec4New(FMul(a.x, mag), FMul(a.y, mag), FMul(a.z, mag), FMul(a.w, mag))
        ELSE a

Vec4GetNormliaze(a) ==
    LET norm == Vec4Norm(a)
    IN  IF FGt(norm, Zero)
        THEN LET mag == FDiv(One, norm)
             IN  Vec4New(FMul(a.x, mag), FMul(a.y, mag), FMul(a.z, mag), FMul(a.w, mag))
        ELSE Vec4Copy(a)

\* Vec4::convert_to_unit_norm: the new value of the receiver
Vec4ConvertToUnitNorm(a) ==
    LET angle == FDiv(FMul(a.w, FPI), Deg180)
        n == Vec4Normalize(a)
        v == Vec3Scale(Vec4ToPureVec3(n), FSin(FMul(angle, Half)))
    IN  Vec4New(v.x, v.y, v.z, FCos(FMul(angle, Half)))

Vec4Conjugate(a) == Vec4New(FNeg(a.x), FNeg(a.y), FNeg(a.z), a.w)

Vec4Inverse(a) ==
    LET norm == Vec4Norm(a)
        conj == Vec4Conjugate(a)
        v3 == Vec3Scale(Vec3New(conj.x, conj.y, conj.z), FDiv(One, FMul(norm, norm)))
    IN  Vec4New(v3.x, v3.y, v3.z, FMul(conj.w, norm))

\* impl Add<Vec4> for Vec4
Vec4Add(a, other) ==
    Vec4New(FAdd(a.x, other.x), FAdd(a.y, other.y), FAdd(a.z, other.z), FAdd(a.w, other.w))

\* impl AddAssign<Vec4> for Vec4: the new value of the receiver
Vec4AddAssign(a, other) ==
    Vec4New(FAdd(a.x, other.x), FAdd(a.y, other.y), FAdd(a.z, other.z), FAdd(a.w, other.w))

\* impl Sub<Vec4> for Vec4
Vec4Sub(a, other) ==
    Vec4New(FSub(a.x, other.x), FSub(a.y, other.y), FSub(a.z, other.z), FSub(a.w, other.w))

\* impl SubAssign<Vec4> for Vec4: the new value of the receiver
Vec4SubAssign(a, other) ==
    Vec4New(FSub(a.x, other.x), FSub(a.y, other.y), FSub(a.z, other.z), FSub(a.w, other.w))

\* impl Mul<Vec4> for Vec4
Vec4Mul(a, other) ==
    Vec4New(FMul(a.x, other.x), FMul(a.y, other.y), FMul(a.z, other.z), FMul(a.w, other.w))

\* impl MulAssign<Vec4> for Vec4: the new value of the receiver
Vec4MulAssign(a, other) ==
    Vec4New(FMul(a.x, other.x), FMul(a.y, other.y), FMul(a.z, other.z), FMul(a.w, other.w))

\* impl Div<Vec4> for Vec4
Vec4Div(a, other) ==
    Vec4New(FDiv(a.x, other.x), FDiv(a.y, other.y), FDiv(a.z, other.z), FDiv(a.w, other.w))

\* impl DivAssign<Vec4> for Vec4: the new value of the receiver
Vec4DivAssign(a, other) ==
    Vec4New(FDiv(a.x, other.x), FDiv(a.y, other.y), FDiv(a.z, other.z), FDiv(a.w, other.w))

\* impl Neg for Vec4 that does not touch the w component.
Vec4NegKeepsW(a) == Vec4New(FNeg(a.x), FNeg(a.y), FNeg(a.z), a.w)

\* impl Neg for Vec4
Vec4Neg(a) == Vec4New(FNeg(a.x), FNeg(a.y), FNeg(a.z), FNeg(a.w))

\* Vec4::rotate
Vec4Rotate(self, rhs) ==
    QRotate(QNew(Vec3New(self.x, self.y, self.z), self.w),
            QNew(Vec3New(rhs.x, rhs.y, rhs.z), rhs.w))

\* ---------------------------------------------------------------- inputs

\* Components of the single-value inputs run over the halves
\* -MaxHalf/2 .. MaxHalf/2, which hold the unit quaternions with four
\* nonzero components (+-1/2, +-1/2, +-1/2, +-1/2) and the basis quaternions.
MaxHalf == 2
\* Components of the inputs of the binary operations run over -MaxInt .. MaxInt
\* (whole numbers, or thirds where rounding is wanted).
MaxInt == 1
\* Rotation angles run over 0, 45, ..., 45 * MaxEighth degrees.  They stay
\* below 180 degrees, where cos(angle / 2) is above the resolution of the
\* model, as it is for every angle in f64.
MaxEighth == 2

Halves == {Fin(n * (Scale \div 2)) : n \in -MaxHalf..MaxHalf}
Ints == {Fin(n * Scale) : n \in -MaxInt..MaxInt}
\* Thirds are not exact, so products of them round (1/3 * 1/3, 2/3 * 1/3, ...).
Thirds == {Fin(n * (Scale \div 3)) : n \in -MaxInt..MaxInt}
Angles == {Fin(n * 45 * Scale) : n \in 0..MaxEighth}
\* Rotation axes: every direction with components -1, 0, 1, the zero axis
\* and axes that are not of unit length among them.
AxisParts == {Fin(-Scale), Fin(0), Fin(Scale)}

Vec3Over(S) == [x : S, y : S, z : S]
QuaternionOver(S) == [v : Vec3Over(S), s : S]

Vec3Zero == Vec3New(Zero, Zero, Zero)
QZero == QNew(Vec3Zero, Zero)

\* How many of the four components of q are not zero.
NonZeros(q) ==
    (IF q.v.x = Zero THEN 0 ELSE 1) + (IF q.v.y = Zero THEN 0 ELSE 1)
    + (IF q.v.z = Zero THEN 0 ELSE 1) + (IF q.s = Zero THEN 0 ELSE 1)

\* The Vec4 and the Quaternion built from the same four numbers.
Vec4Of(q) == Vec4New(q.v.x, q.v.y, q.v.z, q.s)
QuatOf(a) == QNew(Vec3New(a.x, a.y, a.z), a.w)

\* ------------------------------------------------------------------ state

VARIABLES
    q1,     \* a Quaternion: the receiver (self) of the quaternion calls
    q2,     \* a Quaternion: the argument (other, rhs) of the quaternion calls
    q3,     \* a Quaternion: the third factor of a product
    v1,     \* a Vec3: the receiver of the Vec3 calls
    v2,     \* a Vec3: the argument of the Vec3 calls
    w1,     \* a Vec4: the receiver of the Vec4 calls
    w2,     \* a Vec4: the argument of the Vec4 calls
    op,     \* the call made on the values, "new" while none was made
    ret,    \* the value the call returned
    work,   \* the local q of Quaternion::rotate when it returns
    angle   \* the local angle of Quaternion::convert_to_unit_norm, run by steps

vars == <<q1, q2, q3, v1, v2, w1, w2, op, ret, work, angle>>

NoRet == [none |-> TRUE]

\* The values as constructed: the Vec4 values hold the four numbers of the
\* quaternions and the Vec3 values their vector parts, and no call was made.
Constructed ==
    /\ w1 = Vec4Of(q1)
    /\ w2 = Vec4Of(q2)
    /\ v1 = q1.v
    /\ v2 = q2.v
    /\ op = "new"
    /\ ret = NoRet
    /\ work = QZero
    /\ angle = Zero

\* ------------------------------------------------- calls on a single value

\* Vec4::new(1.0, 2.0, 3.0, 4.0), the value the tests of Vec4 are run on.
Vec4Fixture == Vec4New(Fin(Scale), Fin(2 * Scale), Fin(3 * Scale), Fin(4 * Scale))

Init ==
    /\ q1 \in QuaternionOver(Halves) \cup {QuatOf(Vec4Fixture)}
    /\ q2 = QZero
    /\ q3 = QZero
    /\ Constructed

CallVec3Magnitude ==
    /\ op = "new"
    /\ op' = "Vec3::magnitude"
    /\ ret' = Vec3Magnitude(v1)
    /\ UNCHANGED <<q1, q2, q3, v1, v2, w1, w2, work, angle>>

CallVec3GetNormalize ==
    /\ op = "new"
    /\ op' = "Vec3::get_normalize"
    /\ ret' = Vec3GetNormalize(v1)
    /\ UNCHANGED <<q1, q2, q3, v1, v2, w1, w2, work, angle>>

CallVec3Normalize ==
    /\ op = "new"
    /\ op' = "Vec3::normalize"
    /\ v1' = Vec3Normalize(v1)
    /\ UNCHANGED <<q1, q2, q3, v2, w1, w2, ret, work, angle>>

CallQNorm ==
    /\ op = "new"
    /\ op' = "Quaternion::norm"
    /\ ret' = QNorm(q1)
    /\ UNCHANGED <<q1, q2, q3, v1, v2, w1, w2, work, angle>>

CallQNormalize ==
    /\ op = "new"
    /\ op' = "Quaternion::normalize"
    /\ q1' = QNormalize(q1)
    /\ UNCHANGED <<q2, q3, v1, v2, w1, w2, ret, work, angle>>

CallQGetNormliaze ==
    /\ op = "new"
    /\ op' = "Quaternion::get_normliaze"
    /\ ret' = QGetNormliaze(q1)
    /\ UNCHANGED <<q1, q2, q3, v1, v2, w1, w2, work, angle>>

CallQConvertToUnitNorm ==
    /\ op = "new"
    /\ op' = "Quaternion::convert_to_unit_norm"
    /\ q1' = QConvertToUnitNorm(q1)
    /\ UNCHANGED <<q2, q3, v1, v2, w1, w2, ret, work, angle>>

CallQConjugate ==
    /\ op = "new"
    /\ op' = "Quaternion::conjugate"
    /\ ret' = QConjugate(q1)
    /\ UNCHANGED <<q1, q2, q3, v1, v2, w1, w2, work, angle>>

CallQInverse ==
    /\ op = "new"
    /\ op' = "Quaternion::inverse"
    /\ ret' = QInverse(q1)
    /\ UNCHANGED <<q1, q2, q3, v1, v2, w1, w2, work, angle>>

\* q1 * q1.inverse()
CallQMulInverse ==
    /\ op = "new"
    /\ op' = "Quaternion::mul(inverse)"
    /\ ret' = QMul(q1, QInverse(q1))
    /\ UNCHANGED <<q1, q2, q3, v1, v2, w1, w2, work, angle>>

CallVec4Normalize ==
    /\ op = "new"
    /\ op' = "Vec4::normalize"
    /\ w1' = Vec4Normalize(w1)
    /\ UNCHANGED <<q1, q2, q3, v1, v2, w2, ret, work, angle>>

CallVec4GetNormliaze ==
    /\ op = "new"
    /\ op' = "Vec4::get_normliaze"
    /\ ret' = Vec4GetNormliaze(w1)
    /\ UNCHANGED <<q1, q2, q3, v1, v2, w1, w2, work, angle>>

CallVec4ConvertToUnitNorm ==
    /\ op = "new"
    /\ op' = "Vec4::convert_to_unit_norm"
    /\ w1' = Vec4ConvertToUnitNorm(w1)
    /\ UNCHANGED <<q1, q2, q3, v1, v2, w2, ret, work, angle>>

CallVec4Conjugate ==
    /\ op = "new"
    /\ op' = "Vec4::conjugate"
    /\ ret' = Vec4Conjugate(w1)
    /\ UNCHANGED <<q1, q2, q3, v1, v2, w1, w2, work, angle>>

CallVec4Inverse ==
    /\ op = "new"
    /\ op' = "Vec4::inverse"
    /\ ret' = Vec4Inverse(w1)
    /\ UNCHANGED <<q1, q2, q3, v1, v2, w1, w2, work, angle>>

CallVec4ToVec3 ==
    /\ op = "new"
    /\ op' = "Vec4::to_vec3"
    /\ ret' = Vec4ToVec3(w1)
    /\ UNCHANGED <<q1, q2, q3, v1, v2, w1, w2, work, angle>>

CallVec4ToPureVec3 ==
    /\ op = "new"
    /\ op' = "Vec4::to_pure_vec3"
    /\ ret' = Vec4ToPureVec3(w1)
    /\ UNCHANGED <<q1, q2, q3, v1, v2, w1, w2, work, angle>>

Next ==
    \/ CallVec3Magnitude
    \/ CallVec3GetNormalize
    \/ CallVec3Normalize
    \/ CallQNorm
    \/ CallQNormalize
    \/ CallQGetNormliaze
    \/ CallQConvertToUnitNorm
    \/ CallQConjugate
    \/ CallQInverse
    \/ CallQMulInverse
    \/ CallVec4Normalize
    \/ CallVec4GetNormliaze
    \/ CallVec4ConvertToUnitNorm
    \/ CallVec4Conjugate
    \/ CallVec4Inverse
    \/ CallVec4ToVec3
    \/ CallVec4ToPureVec3

Spec == Init /\ [][Next]_vars

\* ------------------------------------------------------ calls on two Vec3

InitVec3 ==
    /\ q1 \in [v : Vec3Over(Thirds), s : {Zero}]
    /\ q2 \in [v : Vec3Over(Thirds), s : {Zero}]
    /\ q3 = QZero
    /\ Constructed

CallVec3Mul ==
    /\ op = "new"
    /\ op' = "Vec3::mul"
    /\ ret' = Vec3Mul(v1, v2)
    /\ UNCHANGED <<q1, q2, q3, v1, v2, w1, w2, work, angle>>

CallVec3Dot ==
    /\ op = "new"
    /\ op' = "Vec3::dot"
    /\ ret' = Vec3Dot(v1, v2)
    /\ UNCHANGED <<q1, q2, q3, v1, v2, w1, w2, work, angle>>

CallVec3Rem ==
    /\ op = "new"
    /\ op' = "Vec3::rem"
    /\ ret' = Vec3Rem(v1, v2)
    /\ UNCHANGED <<q1, q2, q3, v1, v2, w1, w2, work, angle>>

CallVec3Cross ==
    /\ op = "new"
    /\ op' = "Vec3::cross"
    /\ ret' = Vec3Cross(v1, v2)
    /\ UNCHANGED <<q1, q2, q3, v1, v2, w1, w2, work, angle>>

CallVec3RemAssign ==
    /\ op = "new"
    /\ op' = "Vec3::rem_assign"
    /\ v1' = Vec3RemAssign(v1, v2)
    /\ UNCHANGED <<q1, q2, q3, v2, w1, w2, ret, work, angle>>

CallVec3Neg ==
    /\ op = "new"
    /\ op' = "Vec3::neg"
    /\ ret' = Vec3Neg(v1)
    /\ UNCHANGED <<q1, q2, q3, v1, v2, w1, w2, work, angle>>

NextVec3 ==
    \/ CallVec3Mul
    \/ CallVec3Dot
    \/ CallVec3Rem
    \/ CallVec3Cross
    \/ CallVec3RemAssign
    \/ CallVec3Neg

SpecVec3 == InitVec3 /\ [][NextVec3]_vars

\* ------------------------------------------------- products of quaternions

InitMul ==
    /\ q1 \in QuaternionOver(Thirds)
    /\ q2 \in {q \in QuaternionOver(Ints) : NonZeros(q) <= 2}
    /\ q3 = QZero
    /\ Constructed

CallQMul ==
    /\ op = "new"
    /\ op' = "Quaternion::mul"
    /\ ret' = QMul(q1, q2)
    /\ UNCHANGED <<q1, q2, q3, v1, v2, w1, w2, work, angle>>

CallQMulAssign ==
    /\ op = "new"
    /\ op' = "Quaternion::mul_assign"
    /\ q1' = QMulAssign(q1, q2)
    /\ UNCHANGED <<q2, q3, v1, v2, w1, w2, ret, work, angle>>

NextMul ==
    \/ CallQMul
    \/ CallQMulAssign

SpecMul == InitMul /\ [][NextMul]_vars

InitAssoc ==
    /\ q1 \in {q \in QuaternionOver(Ints) : NonZeros(q) <= 2}
    /\ q2 \in {q \in QuaternionOver(Ints) : NonZeros(q) <= 1}
    /\ q3 \in {q \in QuaternionOver(Ints) : NonZeros(q) <= 1}
    /\ Constructed

\* (q1 * q2) * q3 and q1 * (q2 * q3)
CallQMulThree ==
    /\ op = "new"
    /\ op' = "Quaternion::mul(three)"
    /\ ret' = [left |-> QMul(QMul(q1, q2), q3), right |-> QMul(q1, QMul(q2, q3))]
    /\ UNCHANGED <<q1, q2, q3, v1, v2, w1, w2, work, angle>>

\* q1 * q2 and q2 * q1
CallQMulBothWays ==
    /\ op = "new"
    /\ op' = "Quaternion::mul(both ways)"
    /\ ret' = [left |-> QMul(q1, q2), right |-> QMul(q2, q1)]
    /\ UNCHANGED <<q1, q2, q3, v1, v2, w1, w2, work, angle>>

NextAssoc ==
    \/ CallQMulThree
    \/ CallQMulBothWays

SpecAssoc == InitAssoc /\ [][NextAssoc]_vars

\* ------------------------------------------------------ calls on two Vec4

InitVec4 ==
    /\ q1 \in {q \in QuaternionOver(Ints) : NonZeros(q) <= 2} \cup {QuatOf(Vec4Fixture)}
    /\ q2 \in {q \in QuaternionOver(Thirds) : NonZeros(q) <= 2} \cup {QuatOf(Vec4Fixture)}
    /\ q3 = QZero
    /\ Constructed

CallVec4Add ==
    /\ op = "new"
    /\ op' = "Vec4::add"
    /\ ret' = Vec4Add(w1, w2)
    /\ UNCHANGED <<q1, q2, q3, v1, v2, w1, w2, work, angle>>

CallVec4AddAssign ==
    /\ op = "new"
    /\ op' = "Vec4::add_assign"
    /\ w1' = Vec4AddAssign(w1, w2)
    /\ UNCHANGED <<q1, q2, q3, v1, v2, w2, ret, work, angle>>

CallVec4Sub ==
    /\ op = "new"
    /\ op' = "Vec4::sub"
    /\ ret' = Vec4Sub(w1, w2)
    /\ UNCHANGED <<q1, q2, q3, v1, v2, w1, w2, work, angle>>

CallVec4SubAssign ==
    /\ op = "new"
    /\ op' = "Vec4::sub_assign"
    /\ w1' = Vec4SubAssign(w1, w2)
    /\ UNCHANGED <<q1, q2, q3, v1, v2, w2, ret, work, angle>>

CallVec4Mul ==
    /\ op = "new"
    /\ op' = "Vec4::mul"
    /\ ret' = Vec4Mul(w1, w2)
    /\ UNCHANGED <<q1, q2, q3, v1, v2, w1, w2, work, angle>>

CallVec4MulAssign ==
    /\ op = "new"
    /\ op' = "Vec4::mul_assign"
    /\ w1' = Vec4MulAssign(w1, w2)
    /\ UNCHANGED <<q1, q2, q3, v1, v2, w2, ret, work, angle>>

CallVec4Div ==
    /\ op = "new"
    /\ op' = "Vec4::div"
    /\ ret' = Vec4Div(w1, w2)
    /\ UNCHANGED <<q1, q2, q3, v1, v2, w1, w2, work, angle>>

CallVec4DivAssign ==
    /\ op = "new"
    /\ op' = "Vec4::div_assign"
    /\ w1' = Vec4DivAssign(w1, w2)
    /\ UNCHANGED <<q1, q2, q3, v1, v2, w2, ret, work, angle>>

CallVec4Neg ==
    /\ op = "new"
    /\ op' = "Vec4::neg"
    /\ ret' = Vec4Neg(w1)
    /\ UNCHANGED <<q1, q2, q3, v1, v2, w1, w2, work, angle>>

NextVec4 ==
    \/ CallVec4Add
    \/ CallVec4AddAssign
    \/ CallVec4Sub
    \/ CallVec4SubAssign
    \/ CallVec4Mul
    \/ CallVec4MulAssign
    \/ CallVec4Div
    \/ CallVec4DivAssign
    \/ CallVec4Neg

SpecVec4 == InitVec4 /\ [][NextVec4]_vars

\* ------------------------------- convert_to_unit_norm, statement by statement

InitConvert ==
    /\ q1 \in [v : Vec3Over(Halves), s : Angles \cup Halves]
    /\ q2 = QZero
    /\ q3 = QZero
    /\ Constructed

\* let angle = self.s * std::f64::consts::PI / 180.0;
ConvertReadAngle ==
    /\ op = "new"
    /\ op' = "convert_to_unit_norm:61"
    /\ angle' = ConvertAngle(q1)
    /\ UNCHANGED <<q1, q2, q3, v1, v2, w1, w2, ret, work>>

\* self.normalize();
ConvertNormalize ==
    /\ op = "convert_to_unit_norm:61"
    /\ op' = "convert_to_unit_norm:62"
    /\ q1' = QNormalize(q1)
    /\ UNCHANGED <<q2, q3, v1, v2, w1, w2, ret, work, angle>>

\* self.s = (angle * 0.5).cos();
ConvertWriteS ==
    /\ op = "convert_to_unit_norm:62"
    /\ op' = "convert_to_unit_norm:63"
    /\ q1' = QNew(q1.v, FCos(FMul(angle, Half)))
    /\ UNCHANGED <<q2, q3, v1, v2, w1, w2, ret, work, angle>>

\* self.v = self.v * (angle * 0.5).sin();
ConvertWriteV ==
    /\ op = "convert_to_unit_norm:63"
    /\ op' = "Quaternion::convert_to_unit_norm"
    /\ q1' = QNew(Vec3Scale(q1.v, FSin(FMul(angle, Half))), q1.s)
    /\ UNCHANGED <<q2, q3, v1, v2, w1, w2, ret, work, angle>>

NextConvert ==
    \/ ConvertReadAngle
    \/ ConvertNormalize
    \/ ConvertWriteS
    \/ ConvertWriteV

SpecConvert == InitConvert /\ [][NextConvert]_vars

\* ---------------------------------------------------------------- rotation

InitRotate ==
    /\ q1 \in {q \in QuaternionOver(Ints) : NonZeros(q) <= 2}
    /\ q2 \in [v : Vec3Over(AxisParts), s : Angles]
    /\ q3 = QZero
    /\ Constructed

CallQRotate ==
    /\ op = "new"
    /\ op' = "Quaternion::rotate"
    /\ ret' = QRotate(q1, q2)
    /\ work' = RotateWorking(q2)
    /\ UNCHANGED <<q1, q2, q3, v1, v2, w1, w2, angle>>

CallVec4Rotate ==
    /\ op = "new"
    /\ op' = "Vec4::rotate"
    /\ ret' = Vec4Rotate(w1, w2)
    /\ work' = RotateWorking(QuatOf(w2))
    /\ UNCHANGED <<q1, q2, q3, v1, v2, w1, w2, angle>>

NextRotate ==
    \/ CallQRotate
    \/ CallVec4Rotate
    \/ CallQInverse

SpecRotate == InitRotate /\ [][NextRotate]_vars

\* ------------------------- every Quaternion operation, rotate by statements

InitFrame ==
    /\ q1 \in {q \in QuaternionOver(Ints) : NonZeros(q) <= 1}
    /\ q2 \in [v : Vec3Over(AxisParts), s : Angles]
    /\ q3 = QZero
    /\ Constructed

CallQCopy ==
    /\ op = "new"
    /\ op' = "Quaternion::copy"
    /\ ret' = QCopy(q1)
    /\ UNCHANGED <<q1, q2, q3, v1, v2, w1, w2, work, angle>>

CallQAdd ==
    /\ op = "new"
    /\ op' = "Quaternion::add"
    /\ ret' = QAdd(q1, q2)
    /\ UNCHANGED <<q1, q2, q3, v1, v2, w1, w2, work, angle>>

CallQAddAssign ==
    /\ op = "new"
    /\ op' = "Quaternion::add_assign"
    /\ q1' = QAddAssign(q1, q2)
    /\ UNCHANGED <<q2, q3, v1, v2, w1, w2, ret, work, angle>>

CallQSub ==
    /\ op = "new"
    /\ op' = "Quaternion::sub"
    /\ ret' = QSub(q1, q2)
    /\ UNCHANGED <<q1, q2, q3, v1, v2, w1, w2, work, angle>>

CallQSubAssign ==
    /\ op = "new"
    /\ op' = "Quaternion::sub_assign"
    /\ q1' = QSubAssign(q1, q2)
    /\ UNCHANGED <<q2, q3, v1, v2, w1, w2, ret, work, angle>>

\* q1 * q2.s
CallQScale ==
    /\ op = "new"
    /\ op' = "Quaternion::mul(f64)"
    /\ ret' = QScale(q1, q2.s)
    /\ UNCHANGED <<q1, q2, q3, v1, v2, w1, w2, work, angle>>

\* q1 *= q2.s
CallQScaleAssign ==
    /\ op = "new"
    /\ op' = "Quaternion::mul_assign(f64)"
    /\ q1' = QScaleAssign(q1, q2.s)
    /\ UNCHANGED <<q2, q3, v1, v2, w1, w2, ret, work, angle>>

\* let mut q = rhs.copy();
RotateCopy ==
    /\ op = "new"
    /\ op' = "rotate:84"
    /\ work' = QCopy(q2)
    /\ UNCHANGED <<q1, q2, q3, v1, v2, w1, w2, ret, angle>>

\* q.v.normalize() run on rhs itself, with q an alias of rhs.
RotateNormalizeAxisOfRhs ==
    /\ op = "rotate:84"
    /\ op' = "rotate:86"
    /\ q2' = QNew(Vec3Normalize(q2.v), q2.s)
    /\ work' = QNew(Vec3Normalize(q2.v), q2.s)
    /\ UNCHANGED <<q1, q3, v1, v2, w1, w2, ret, angle>>

\* q.v.normalize();
RotateNormalizeAxis ==
    /\ op = "rotate:84"
    /\ op' = "rotate:86"
    /\ work' = QNew(Vec3Normalize(work.v), work.s)
    /\ UNCHANGED <<q1, q2, q3, v1, v2, w1, w2, ret, angle>>

\* q.convert_to_unit_norm();
RotateConvert ==
    /\ op = "rotate:86"
    /\ op' = "rotate:87"
    /\ work' = QConvertToUnitNorm(work)
    /\ UNCHANGED <<q1, q2, q3, v1, v2, w1, w2, ret, angle>>

\* return (q * *self * q.inverse()).v;
RotateReturn ==
    /\ op = "rotate:87"
    /\ op' = "Quaternion::rotate"
    /\ ret' = QMul(QMul(work, q1), QInverse(work)).v
    /\ UNCHANGED <<q1, q2, q3, v1, v2, w1, w2, work, angle>>

NextFrame ==
    \/ CallQCopy
    \/ CallQNorm
    \/ CallQNormalize
    \/ CallQGetNormliaze
    \/ CallQConvertToUnitNorm
    \/ CallQConjugate
    \/ CallQInverse
    \/ CallQAdd
    \/ CallQAddAssign
    \/ CallQSub
    \/ CallQSubAssign
    \/ CallQMul
    \/ CallQMulAssign
    \/ CallQScale
    \/ CallQScaleAssign
    \/ RotateCopy
    \/ RotateNormalizeAxis
    \/ RotateConvert
    \/ RotateReturn

SpecFrame == InitFrame /\ [][NextFrame]_vars

\* ------------------------------------------------------------------ claims

\* Approximate equality, to one hundredth.
Tol == Scale \div 100
Near(a, b) == IsFinite(a) /\ IsFinite(b) /\ Abs(a.n - b.n) <= Tol
Vec3Near(a, b) == Near(a.x, b.x) /\ Near(a.y, b.y) /\ Near(a.z, b.z)
Vec3IsFinite(a) == IsFinite(a.x) /\ IsFinite(a.y) /\ IsFinite(a.z)

\* The point (0,0,1) as a pure quaternion and the descriptor of a quarter
\* turn about the y axis.
PointZ == QNew(Vec3New(Zero, Zero, One), Zero)
QuarterTurnY == QNew(Vec3New(Zero, One, Zero), Fin(90 * Scale))

\* C1: rotating the point (0,0,1) by rhs = (v = (0,1,0), s = 90) returns
\* approximately (1,0,0) or (-1,0,0).
CounterC1 ==
    (op = "Quaternion::rotate" /\ q1 = PointZ /\ q2 = QuarterTurnY)
        => \/ Vec3Near(ret, Vec3New(One, Zero, Zero))
           \/ Vec3Near(ret, Vec3New(FNeg(One), Zero, Zero))

\* C2: for every rhs with a nonzero axis, the working quaternion of rotate
\* after q.v.normalize() and q.convert_to_unit_norm() is
\* (axis_hat * sin(theta/2), cos(theta/2)) with theta = rhs.s degrees, and its
\* norm is 1 (s*s + dot(v,v) = 1).
CounterC2 ==
    (op = "Quaternion::rotate" /\ q2.v # Vec3Zero)
        => LET half == FMul(FDiv(FMul(q2.s, FPI), Deg180), Half)
               axis == Vec3GetNormalize(q2.v)
           IN  /\ Vec3Near(work.v, Vec3Scale(axis, FSin(half)))
               /\ Near(work.s, FCos(half))
               /\ Near(FAdd(FMul(work.s, work.s), Vec3Dot(work.v, work.v)), One)

\* C3: with rhs.s = 0 (a rotation by 0 degrees about any axis, the zero axis
\* included) Quaternion::rotate returns exactly self.v, and Vec4::rotate with
\* rhs.w = 0 returns exactly (self.x, self.y, self.z).
RotateByZeroIsIdentity ==
    /\ (op = "Quaternion::rotate" /\ q2.s = Zero) => Vec3Eq(ret, q1.v)
    /\ (op = "Vec4::rotate" /\ w2.w = Zero) => Vec3Eq(ret, Vec3New(w1.x, w1.y, w1.z))

RotatedByZero ==
    /\ op = "Quaternion::rotate"
    /\ q2.s = Zero
    /\ q2.v.x # Zero /\ q2.v.y # Zero
    /\ q1.v # Vec3Zero
    /\ q1.s # Zero

\* Field for field: x, y, z against v and w against s.
SameFields(a, q) ==
    FEq(a.x, q.v.x) /\ FEq(a.y, q.v.y) /\ FEq(a.z, q.v.z) /\ FEq(a.w, q.s)

\* C4: Vec4::conjugate, Vec4::inverse and Vec4::convert_to_unit_norm give
\* field for field the numbers Quaternion::conjugate, Quaternion::inverse and
\* Quaternion::convert_to_unit_norm give on the quaternion built from the
\* same four components.
CounterC4 ==
    /\ op = "Vec4::conjugate" => SameFields(ret, QConjugate(q1))
    /\ op = "Vec4::inverse" => SameFields(ret, QInverse(q1))
    /\ op = "Vec4::convert_to_unit_norm" => SameFields(w1, QConvertToUnitNorm(q1))

QIdentity == QNew(Vec3Zero, One)

\* C7: for norm(q) = 1, inverse(q) equals conjugate(q), which is the textbook
\* inverse conjugate(q) / norm^2, and q * inverse(q) is the identity
\* (v = (0,0,0), s = 1); for every q the scalar part of inverse(q) is
\* conj.s * norm, which for norm(q) # 1 and conj.s # 0 is not conj.s / norm^2.
InverseOfUnitIsConjugate ==
    /\ (op = "Quaternion::inverse" /\ QNorm(q1) = One)
          => /\ QEq(ret, QConjugate(q1))
             /\ QEq(ret, QInverseTextbook(q1))
    /\ (op = "Quaternion::mul(inverse)" /\ QNorm(q1) = One) => QEq(ret, QIdentity)
    /\ op = "Quaternion::inverse" => ret.s = FMul(q1.s, QNorm(q1))
    /\ (op = "Quaternion::inverse" /\ QNorm(q1) # One /\ q1.s # Zero)
          => ~FEq(ret.s, FDiv(q1.s, FMul(QNorm(q1), QNorm(q1))))

InvertedUnit ==
    /\ op = "Quaternion::inverse"
    /\ QNorm(q1) = One
    /\ NonZeros(q1) = 4

\* C8: normalizing a zero-length value is a no-op that divides nothing by
\* zero: for Vec3(0,0,0), Vec4(0,0,0,0) and the zero Quaternion the in-place
\* normalize leaves the receiver equal to its original value and the
\* value-returning variant returns a value equal to the original.
NormalizeZeroIsNoOp ==
    /\ (op = "Vec3::normalize" /\ q1.v = Vec3Zero) => Vec3Eq(v1, q1.v)
    /\ (op = "Vec3::get_normalize" /\ v1 = Vec3Zero) => Vec3Eq(ret, v1)
    /\ (op = "Vec4::normalize" /\ q1 = QZero) => Vec4Eq(w1, Vec4Of(q1))
    /\ (op = "Vec4::get_normliaze" /\ w1 = Vec4Of(QZero)) => Vec4Eq(ret, w1)
    /\ (op = "Quaternion::normalize" /\ w1 = Vec4Of(QZero)) => QEq(q1, QuatOf(w1))
    /\ (op = "Quaternion::get_normliaze" /\ q1 = QZero) => QEq(ret, q1)

NormalizedZero ==
    /\ op = "Vec3::normalize"
    /\ q1 = QZero
    /\ v1 = Vec3Zero

\* The basis quaternions i, j and k.
QI == QNew(Vec3New(One, Zero, Zero), Zero)
QJ == QNew(Vec3New(Zero, One, Zero), Zero)
QK == QNew(Vec3New(Zero, Zero, One), Zero)

\* C5: over integer components (p * q) * r = p * (q * r), and multiplication
\* is not commutative: i * j = k while j * i = -k.
MulAssociativeNotCommutative ==
    /\ op = "Quaternion::mul(three)" => QEq(ret.left, ret.right)
    /\ (op = "Quaternion::mul(both ways)" /\ q1 = QI /\ q2 = QJ)
          => /\ QEq(ret.left, QK)
             /\ QEq(ret.right, QNew(Vec3Neg(QK.v), Zero))
             /\ ~QEq(ret.left, ret.right)

MultipliedIJ ==
    /\ op = "Quaternion::mul(both ways)"
    /\ q1 = QI
    /\ q2 = QJ
    /\ ~QEq(ret.left, ret.right)

\* C6: p * q has vector part q.v*p.s + p.v*q.s + cross(p.v, q.v), the left
\* operand's vector first in the cross product, and scalar part
\* p.s*q.s - dot(p.v, q.v); mul_assign stores exactly self * other into self.
HamiltonProduct ==
    /\ op = "Quaternion::mul" =>
          /\ ret.v.x = FAdd(FAdd(FMul(q2.v.x, q1.s), FMul(q1.v.x, q2.s)),
                            FSub(FMul(q1.v.y, q2.v.z), FMul(q1.v.z, q2.v.y)))
          /\ ret.v.y = FAdd(FAdd(FMul(q2.v.y, q1.s), FMul(q1.v.y, q2.s)),
                            FSub(FMul(q1.v.z, q2.v.x), FMul(q1.v.x, q2.v.z)))
          /\ ret.v.z = FAdd(FAdd(FMul(q2.v.z, q1.s), FMul(q1.v.z, q2.s)),
                            FSub(FMul(q1.v.x, q2.v.y), FMul(q1.v.y, q2.v.x)))
          /\ ret.s = FSub(FMul(q1.s, q2.s),
                          FAdd(FAdd(FMul(q1.v.x, q2.v.x), FMul(q1.v.y, q2.v.y)),
                               FMul(q1.v.z, q2.v.z)))
    /\ op = "Quaternion::mul_assign" => QEq(q1, QMul(QuatOf(w1), q2))

MultipliedAcross ==
    /\ op = "Quaternion::mul"
    /\ NonZeros(q1) = 4
    /\ NonZeros(q2) = 2
    /\ Vec3Rem(q1.v, q2.v) # Vec3Zero

\* C9 as stated: inverse of the zero quaternion, and rotate with a zero
\* quaternion as rhs or as self, return inf or NaN components.
CounterC9 ==
    /\ (op = "Quaternion::inverse" /\ q1 = QZero)
          => ~(Vec3IsFinite(ret.v) /\ IsFinite(ret.s))
    /\ (op = "Quaternion::rotate" /\ (q1 = QZero \/ q2 = QZero))
          => ~Vec3IsFinite(ret)

\* C9 as amended: inverse of the zero quaternion returns NaN in its three
\* vector components (0 * inf) and 0 as its scalar part; rotate divides
\* nothing by zero: with the zero quaternion as rhs both normalizations are
\* skipped, the working quaternion is the identity and the result is exactly
\* self.v; with the zero quaternion as self the result is the zero vector.
ZeroInverseIsNaNRotateIsFinite ==
    /\ (op = "Quaternion::inverse" /\ q1 = QZero)
          => /\ IsNaN(ret.v.x) /\ IsNaN(ret.v.y) /\ IsNaN(ret.v.z)
             /\ ret.s = Zero
    /\ (op = "Quaternion::rotate" /\ q2 = QZero)
          => /\ work = QIdentity
             /\ Vec3Eq(ret, q1.v)
    /\ (op = "Quaternion::rotate" /\ q1 = QZero) => Vec3Eq(ret, Vec3Zero)

RotatedByZeroQuaternion ==
    /\ op = "Quaternion::rotate"
    /\ q2 = QZero
    /\ NonZeros(q1) = 2

\* C10: a.cross(&b) == -(b.cross(&a)) under the per-field equality, cross
\* gives the result of the % operator, and %= stores that result into the
\* receiver.
CrossAnticommutative ==
    /\ op = "Vec3::cross" =>
          /\ Vec3Eq(ret, Vec3Neg(Vec3Cross(v2, v1)))
          /\ Vec3Eq(ret, Vec3Rem(v1, v2))
    /\ op = "Vec3::rem" => Vec3Eq(ret, Vec3Neg(Vec3Rem(v2, v1)))
    /\ op = "Vec3::rem_assign" => Vec3Eq(v1, Vec3Cross(q1.v, v2))

CrossedNonParallel ==
    /\ op = "Vec3::cross"
    /\ ret.x # Zero /\ ret.y # Zero /\ ret.z # Zero

\* C11: a.dot(&b) == b.dot(&a) == a.x*b.x + a.y*b.y + a.z*b.z, and a * b
\* returns that same scalar.
DotCommutative ==
    /\ op = "Vec3::dot" =>
          /\ FEq(ret, Vec3Dot(v2, v1))
          /\ FEq(ret, FAdd(FAdd(FMul(v1.x, v2.x), FMul(v1.y, v2.y)), FMul(v1.z, v2.z)))
    /\ op = "Vec3::mul" =>
          /\ FEq(ret, Vec3Dot(v1, v2))
          /\ FEq(ret, FAdd(FAdd(FMul(v1.x, v2.x), FMul(v1.y, v2.y)), FMul(v1.z, v2.z)))

DottedAcross ==
    /\ op = "Vec3::dot"
    /\ v1.x # v2.x /\ v1.y # v2.y /\ v1.z # v2.z
    /\ v1.x # Zero /\ v2.y # Zero
    /\ ret # Zero

\* C12: for every value of Vec3, Vec4 and Quaternion, zero-length or not,
\* the in-place normalize leaves a copy exactly equal to what the
\* value-returning variant returns on the original.
NormalizeEqGetNormalize ==
    /\ op = "Vec3::normalize" => Vec3Eq(v1, Vec3GetNormalize(q1.v))
    /\ op = "Vec4::normalize" => Vec4Eq(w1, Vec4GetNormliaze(Vec4Of(q1)))
    /\ op = "Quaternion::normalize" => QEq(q1, QGetNormliaze(QuatOf(w1)))

NormalizedInPlace ==
    /\ op = "Vec4::normalize"
    /\ NonZeros(q1) = 4
    /\ w1 # Vec4Of(q1)

\* C14: for a.w # 0, a.to_vec3() == Vec3(a.x/a.w, a.y/a.w, a.z/a.w), so that
\* Vec4(1,2,3,4) gives Vec3(0.25, 0.5, 0.75); a.to_pure_vec3() ==
\* Vec3(a.x, a.y, a.z) with no division; neither call changes a.
ToVec3Divides ==
    /\ (op = "Vec4::to_vec3" /\ w1.w # Zero) =>
          /\ FEq(ret.x, FDiv(w1.x, w1.w))
          /\ FEq(ret.y, FDiv(w1.y, w1.w))
          /\ FEq(ret.z, FDiv(w1.z, w1.w))
    /\ (op = "Vec4::to_vec3" /\ w1 = Vec4Fixture) =>
          Vec3Eq(ret, Vec3New(Fin(Scale \div 4), Fin(Scale \div 2), Fin(3 * (Scale \div 4))))
    /\ op = "Vec4::to_pure_vec3" => Vec3Eq(ret, Vec3New(w1.x, w1.y, w1.z))
    /\ op \in {"Vec4::to_vec3", "Vec4::to_pure_vec3"} => w1 = Vec4Of(q1)

DividedFixture ==
    /\ op = "Vec4::to_vec3"
    /\ w1 = Vec4Fixture

\* The Vec4 whose every field, w included, is F of the fields of a and b.
Fieldwise(F(_, _), a, b) == Vec4New(F(a.x, b.x), F(a.y, b.y), F(a.z, b.z), F(a.w, b.w))

Original == QuatOf(w1)
OriginalNorm ==
    FSqrt(FAdd(FMul(Original.s, Original.s),
               FAdd(FAdd(FMul(Original.v.x, Original.v.x), FMul(Original.v.y, Original.v.y)),
                    FMul(Original.v.z, Original.v.z))))
OriginalHalfAngle == FMul(FDiv(FMul(Original.s, FPI), Deg180), Half)

\* C15: convert_to_unit_norm first reads the angle from the original scalar
\* (degrees, nothing normalized yet), then normalizes v and s together by
\* norm = sqrt(s*s + dot(v,v)) (a no-op for norm 0), then overwrites s with
\* cos(angle/2), then v with (normalized v) * sin(angle/2); so the final s
\* depends on the original s alone and the final v is
\* (v / norm) * sin(s degrees / 2) when norm > 0.
ConvertStepsInOrder ==
    /\ op = "convert_to_unit_norm:61" =>
          /\ angle = FDiv(FMul(Original.s, FPI), Deg180)
          /\ q1 = Original
    /\ op = "convert_to_unit_norm:62" =>
          /\ angle = FDiv(FMul(Original.s, FPI), Deg180)
          /\ IF FGt(OriginalNorm, Zero)
             THEN /\ q1.v = Vec3Scale(Original.v, FDiv(One, OriginalNorm))
                  /\ q1.s = FMul(Original.s, FDiv(One, OriginalNorm))
             ELSE q1 = Original
    /\ op = "convert_to_unit_norm:63" =>
          /\ q1.s = FCos(OriginalHalfAngle)
          /\ IF FGt(OriginalNorm, Zero)
             THEN q1.v = Vec3Scale(Original.v, FDiv(One, OriginalNorm))
             ELSE q1.v = Original.v
    /\ op = "Quaternion::convert_to_unit_norm" =>
          /\ q1.s = FCos(OriginalHalfAngle)
          /\ FGt(OriginalNorm, Zero) =>
                q1.v = Vec3Scale(Vec3Scale(Original.v, FDiv(One, OriginalNorm)),
                                 FSin(OriginalHalfAngle))
          /\ q1 = QConvertToUnitNorm(Original)

ConvertedByNinety ==
    /\ op = "Quaternion::convert_to_unit_norm"
    /\ Original.s = Fin(90 * Scale)
    /\ q1.v.x # Zero /\ q1.v.y # Zero /\ q1.v.z # Zero

\* The operations that assign to a field of their receiver.
ReceiverWriters ==
    {"Quaternion::normalize", "Quaternion::convert_to_unit_norm",
     "Quaternion::add_assign", "Quaternion::sub_assign",
     "Quaternion::mul_assign", "Quaternion::mul_assign(f64)"}

\* C16: rotate works on a copy of rhs, so at each of its statements and after
\* it self and rhs hold their original v and s; get_normliaze, conjugate and
\* inverse (and every other operation that is not normalize,
\* convert_to_unit_norm or an *_assign operator) leave the receiver as it was;
\* no operation changes its argument; the writers leave their result in the
\* receiver.
OperandsUnchanged ==
    /\ q2 = QuatOf(w2)
    /\ op \notin ReceiverWriters => q1 = Original
    /\ op = "Quaternion::rotate" =>
          /\ work = RotateWorking(QuatOf(w2))
          /\ ret = QRotate(Original, QuatOf(w2))
    /\ op = "Quaternion::get_normliaze" => ret = QGetNormliaze(Original)
    /\ op = "Quaternion::conjugate" => ret = QConjugate(Original)
    /\ op = "Quaternion::inverse" => ret = QInverse(Original)
    /\ op = "Quaternion::normalize" => q1 = QNormalize(Original)
    /\ op = "Quaternion::convert_to_unit_norm" => q1 = QConvertToUnitNorm(Original)
    /\ op = "Quaternion::add_assign" => q1 = QAdd(Original, QuatOf(w2))
    /\ op = "Quaternion::sub_assign" => q1 = QSub(Original, QuatOf(w2))
    /\ op = "Quaternion::mul_assign" => q1 = QMul(Original, QuatOf(w2))
    /\ op = "Quaternion::mul_assign(f64)" => q1 = QScale(Original, w2.w)

\* rotate has returned a moved point after its working copy went away from a
\* rhs that is neither of unit length nor of angle 0.
RotatedOnCopy ==
    /\ op = "Quaternion::rotate"
    /\ work.v # q2.v
    /\ work.s # q2.s
    /\ Vec3IsFinite(ret)
    /\ ret # q1.v
====
